---- MODULE Spec2Model ----
(***************************************************************************)
(* Model of the multi-attendee availability engine of google_calendar.py:  *)
(* get_calendar_timezone, infer_timezone_from_events,                      *)
(* get_workweek_for_timezone, find_working_hours_overlap and               *)
(* find_meeting_slots.                                                      *)
(*                                                                         *)
(* Time is counted in minutes.  A naive datetime is the integer            *)
(* 1440 * day + 60 * hour + minute, day 0 being Thursday 2025-01-09, so    *)
(* that no daylight-saving change falls inside the modelled range and      *)
(* every zone has one UTC offset.  None is the string "NONE" for a         *)
(* timezone and the empty tuple for a time of day or a window.             *)
(***************************************************************************)
EXTENDS Integers, Sequences, FiniteSets, TLC

VARIABLES
    req,                \* the arguments of the find_meeting_slots call
    env,                \* the collaborators' answers, the clock of the machine
    pc,                 \* position in find_meeting_slots
    start_date,         \* naive datetime, line 819-822
    end_date,           \* naive datetime, line 824-828
    attendee_timezones, \* dict calendar -> timezone, line 837
    all_busy_times,     \* dict calendar -> list of (start, end), line 875
    free_slots,         \* list of (start, end), line 888
    slot_dates,         \* history: the current_date each slot was appended on
    current_date,       \* line 891
    day_start,          \* the daily search window, line 920-986
    day_end,
    current,            \* position of the slot scan, line 989
    result,             \* what the call returns
    days_searched,      \* line 1038
    calls,              \* history: collaborator calls issued so far
    examined,           \* history: candidates formed so far (line 1000)
    days_entered,       \* history: iterations of the day loop started (line 896)
    earlier             \* history: what the earlier calls of this behaviour returned

vars == <<req, env, pc, start_date, end_date, attendee_timezones, all_busy_times,
          free_slots, slot_dates, current_date, day_start, day_end, current,
          result, days_searched, calls, examined, days_entered, earlier>>

-----------------------------------------------------------------------------
(* Dates and times *)

Max(a, b) == IF a >= b THEN a ELSE b
Min(a, b) == IF a <= b THEN a ELSE b

\* datetime.date(): the calendar day of a naive datetime
DateOf(t) == t \div 1440

\* datetime.combine(date, time(h, m))
Combine(date, h, m) == 1440 * date + 60 * h + m

\* date.weekday(), 0 = Monday .. 6 = Sunday; day 0 is a Thursday
Weekday(date) == (date + 3) % 7

\* timedelta.days of (b - a): whole days, rounded down
DaysBetween(a, b) == (b - a) \div 1440

\* The zones ZoneInfo knows, among those the model draws from
ValidZone(tz) ==
    tz \in {"UTC", "Asia/Jerusalem", "Asia/Tel_Aviv", "Asia/Riyadh", "Asia/Dubai",
            "Asia/Kuwait", "Asia/Amman", "Europe/Paris", "America/New_York",
            "America/Los_Angeles"}

\* utcoffset() of a zone in minutes (January: standard time everywhere)
UtcOffset(tz) ==
    CASE tz = "UTC"                 -> 0
      [] tz = "Asia/Jerusalem"      -> 120
      [] tz = "Asia/Tel_Aviv"       -> 120
      [] tz = "Asia/Riyadh"         -> 180
      [] tz = "Asia/Kuwait"         -> 180
      [] tz = "Asia/Amman"          -> 180
      [] tz = "Asia/Dubai"          -> 240
      [] tz = "Europe/Paris"        -> 60
      [] tz = "America/New_York"    -> 0 - 300
      [] tz = "America/Los_Angeles" -> 0 - 480

\* ToUtc adding the offset instead of taking it away
ToUtcWrongSign(local, tz) == local + UtcOffset(tz)

\* local.astimezone(ZoneInfo("UTC")).replace(tzinfo=None)
ToUtc(local, tz) == local - UtcOffset(tz)

\* utc.replace(tzinfo=UTC).astimezone(tz).replace(tzinfo=None)
FromUtc(utc, tz) == utc + UtcOffset(tz)

-----------------------------------------------------------------------------
(* get_calendar_timezone, infer_timezone_from_events *)


\* get_calendar_timezone letting the failure of the lookup through
get_calendar_timezone_unguarded(calendar_id) == env.declared[calendar_id]

\* The declared timeZone of the calendar, None when the lookup raises
get_calendar_timezone(calendar_id) ==
    IF env.declared[calendar_id] = "FAIL" THEN "NONE" ELSE env.declared[calendar_id]

\* The timezone an event contributes to the count: that of its start, else of its end
EventZones(event) ==
    (IF event.start.dateTime /\ event.start.timeZone # "NONE"
        THEN <<event.start.timeZone>> ELSE <<>>)
    \o
    (IF event.end.dateTime /\ event.end.timeZone # "NONE" /\ event.start.timeZone = "NONE"
        THEN <<event.end.timeZone>> ELSE <<>>)

\* timezone_counts after the loop over the events: the keys in insertion order
\* and their counts
RECURSIVE CountZones(_, _, _)
CountZones(zones, keys, counts) ==
    IF zones = <<>> THEN [keys |-> keys, counts |-> counts]
    ELSE LET tz == Head(zones) IN
         IF tz \in DOMAIN counts
            THEN CountZones(Tail(zones), keys, [counts EXCEPT ![tz] = @ + 1])
            ELSE CountZones(Tail(zones), Append(keys, tz), counts @@ (tz :> 1))

RECURSIVE FlattenZones(_)
FlattenZones(events) ==
    IF events = <<>> THEN <<>> ELSE EventZones(Head(events)) \o FlattenZones(Tail(events))

\* MostCommon returning the last key, in insertion order, with the largest count
MostCommonLast(tc) ==
    LET best == CHOOSE i \in 1..Len(tc.keys) :
                    /\ \A j \in 1..Len(tc.keys) : tc.counts[tc.keys[j]] <= tc.counts[tc.keys[i]]
                    /\ \A j \in (i + 1)..Len(tc.keys) : tc.counts[tc.keys[j]] < tc.counts[tc.keys[i]]
    IN tc.keys[best]

\* max(timezone_counts.items(), key=lambda x: x[1]): the first key, in insertion
\* order, whose count is the largest
MostCommon(tc) ==
    LET best == CHOOSE i \in 1..Len(tc.keys) :
                    /\ \A j \in 1..Len(tc.keys) : tc.counts[tc.keys[j]] <= tc.counts[tc.keys[i]]
                    /\ \A j \in 1..(i - 1) : tc.counts[tc.keys[j]] < tc.counts[tc.keys[i]]
    IN tc.keys[best]

InferFromEvents(events) ==
    IF events = <<>> THEN "NONE"
    ELSE LET tc == CountZones(FlattenZones(events), <<>>, <<>>) IN
         IF tc.keys # <<>> THEN MostCommon(tc) ELSE "NONE"

infer_timezone_from_events(calendar_id) ==
    IF env.events_fail[calendar_id] THEN "NONE"
    ELSE InferFromEvents(env.events[calendar_id])

\* ResolvedZone asking the events first and the declared timezone second
ResolvedZoneEventsFirst(calendar_id) ==
    LET inferred == infer_timezone_from_events(calendar_id) IN
    IF inferred # "NONE" THEN inferred
    ELSE LET declared == get_calendar_timezone(calendar_id) IN
         IF declared # "NONE" THEN declared ELSE "UTC"

\* Lines 842-852: the fallback chain of one calendar
ResolvedZone(calendar_id) ==
    LET declared == get_calendar_timezone(calendar_id) IN
    IF declared # "NONE" THEN declared
    ELSE LET inferred == infer_timezone_from_events(calendar_id) IN
         IF inferred # "NONE" THEN inferred ELSE "UTC"

-----------------------------------------------------------------------------
(* get_workweek_for_timezone, find_working_hours_overlap *)

\* get_workweek_for_timezone without the entry of Asia/Amman
get_workweek_for_timezone_short(timezone) ==
    IF timezone \in {"Asia/Jerusalem", "Asia/Tel_Aviv"} THEN {6, 0, 1, 2, 3}
    ELSE IF timezone \in {"Asia/Riyadh", "Asia/Dubai", "Asia/Kuwait"}
            THEN {6, 0, 1, 2, 3}
    ELSE {0, 1, 2, 3, 4}

get_workweek_for_timezone(timezone) ==
    IF timezone \in {"Asia/Jerusalem", "Asia/Tel_Aviv"} THEN {6, 0, 1, 2, 3}
    ELSE IF timezone \in {"Asia/Riyadh", "Asia/Dubai", "Asia/Kuwait", "Asia/Amman"}
            THEN {6, 0, 1, 2, 3}
    ELSE {0, 1, 2, 3, 4}

\* OverlapLoop leaving out an attendee whose work week does not hold the
\* weekday, instead of returning None
RECURSIVE OverlapLoopSkipping(_, _, _, _, _, _, _)
OverlapLoopSkipping(cals, tzs, date, local_start_hour, local_end_hour, i, acc) ==
    IF i > Len(cals) THEN [off |-> FALSE, win |-> acc]
    ELSE LET tz_str == tzs[cals[i]] IN
         IF Weekday(date) \notin get_workweek_for_timezone(tz_str)
            THEN OverlapLoopSkipping(cals, tzs, date, local_start_hour, local_end_hour,
                                     i + 1, acc)
         ELSE IF ~ValidZone(tz_str)
            THEN OverlapLoopSkipping(cals, tzs, date, local_start_hour, local_end_hour,
                                     i + 1,
                                     IF acc = <<>>
                                        THEN <<Combine(date, local_start_hour, 0),
                                               Combine(date, local_end_hour, 0)>>
                                        ELSE acc)
         ELSE LET utc_start == ToUtc(Combine(date, local_start_hour, 0), tz_str)
                  utc_end   == ToUtc(Combine(date, local_end_hour, 0), tz_str)
              IN OverlapLoopSkipping(cals, tzs, date, local_start_hour, local_end_hour,
                                     i + 1,
                                     IF acc = <<>> THEN <<utc_start, utc_end>>
                                     ELSE <<Max(acc[1], utc_start), Min(acc[2], utc_end)>>)

\* The loop of find_working_hours_overlap over attendee_timezones.items(), from
\* the i-th calendar on; acc is (overlap_start, overlap_end), the empty tuple
\* while both are None.  off: the function returned None at line 732.
RECURSIVE OverlapLoop(_, _, _, _, _, _, _)
OverlapLoop(cals, tzs, date, local_start_hour, local_end_hour, i, acc) ==
    IF i > Len(cals) THEN [off |-> FALSE, win |-> acc]
    ELSE LET tz_str == tzs[cals[i]] IN
         IF Weekday(date) \notin get_workweek_for_timezone(tz_str)
            THEN [off |-> TRUE, win |-> <<>>]
         ELSE IF ~ValidZone(tz_str)
            THEN \* ZoneInfo raises: lines 756-761
                 OverlapLoop(cals, tzs, date, local_start_hour, local_end_hour, i + 1,
                             IF acc = <<>>
                                THEN <<Combine(date, local_start_hour, 0),
                                       Combine(date, local_end_hour, 0)>>
                                ELSE acc)
         ELSE LET utc_start == ToUtc(Combine(date, local_start_hour, 0), tz_str)
                  utc_end   == ToUtc(Combine(date, local_end_hour, 0), tz_str)
              IN OverlapLoop(cals, tzs, date, local_start_hour, local_end_hour, i + 1,
                             IF acc = <<>> THEN <<utc_start, utc_end>>
                             ELSE <<Max(acc[1], utc_start), Min(acc[2], utc_end)>>)

\* find_working_hours_overlap returning the pair even when start >= end
find_working_hours_overlap_unchecked(cals, tzs, date, local_start_hour, local_end_hour) ==
    LET r == OverlapLoop(cals, tzs, date, local_start_hour, local_end_hour, 1, <<>>) IN
    IF r.off THEN <<>> ELSE r.win

\* The window (start, end) in UTC, or the empty tuple for None
find_working_hours_overlap(cals, tzs, date, local_start_hour, local_end_hour) ==
    LET r == OverlapLoop(cals, tzs, date, local_start_hour, local_end_hour, 1, <<>>) IN
    IF r.off THEN <<>>
    ELSE IF r.win # <<>> /\ r.win[1] < r.win[2] THEN r.win
    ELSE <<>>

-----------------------------------------------------------------------------
(* find_meeting_slots: the helpers of its loops *)

\* AllCalendars without the organizer's calendar
AttendeeCalendars == req.attendees

\* Line 838: the organizer's calendar, then the attendees
AllCalendars == <<"primary">> \o req.attendees

CalendarSet == {AllCalendars[i] : i \in 1..Len(AllCalendars)}

\* Lines 831-832: the bounds of the free/busy query; the seconds of 23:59:59
\* are below the model's unit
time_min == Combine(DateOf(start_date), 0, 0)
time_max == Combine(DateOf(end_date), 23, 59)

\* Lines 895-918: whether the day loop skips a date because of its weekday
SkipsWeekday(date) ==
    LET weekday == Weekday(date) IN
    IF req.allowed_weekdays # {} /\ weekday \notin req.allowed_weekdays THEN TRUE
    ELSE IF req.use_attendee_timezones /\ req.weekdays_only
        THEN \E cal_id \in DOMAIN attendee_timezones :
                weekday \notin get_workweek_for_timezone(attendee_timezones[cal_id])
    ELSE req.weekdays_only /\ weekday \in {5, 6}

\* Line 921
UsePreferred == req.preferred_time_start # <<>> \/ req.preferred_time_end # <<>>


\* PreferredWindow reading the preferred times as UTC, not in the primary
\* calendar's timezone
PreferredWindowAsUtc(date) ==
    LET s == IF req.preferred_time_start # <<>> THEN req.preferred_time_start
             ELSE <<req.earliest_hour, 0>>
        e == IF req.preferred_time_end # <<>> THEN req.preferred_time_end
             ELSE <<req.latest_hour, 0>>
    IN <<Combine(date, s[1], s[2]), Combine(date, e[1], e[2])>>

\* Lines 924-938: the preferred window of a date, in the primary calendar's
\* timezone, converted to UTC
PreferredWindow(date) ==
    LET primary_tz == attendee_timezones["primary"]
        s == IF req.preferred_time_start # <<>> THEN req.preferred_time_start
             ELSE <<req.earliest_hour, 0>>
        e == IF req.preferred_time_end # <<>> THEN req.preferred_time_end
             ELSE <<req.latest_hour, 0>>
    IN <<ToUtc(Combine(date, s[1], s[2]), primary_tz),
         ToUtc(Combine(date, e[1], e[2]), primary_tz)>>

\* Lines 955-967 and 970-986: the working-hours window of a date; the empty
\* tuple when the date has no overlap
WorkingWindow(date) ==
    IF req.use_attendee_timezones
       THEN find_working_hours_overlap(AllCalendars, attendee_timezones, date,
                                       req.earliest_hour, req.latest_hour)
       ELSE <<Combine(date, req.earliest_hour, 0), Combine(date, req.latest_hour, 0)>>

\* Lines 920-986: (day_start, day_end), or the empty tuple when the date is skipped
DailyWindow(date) ==
    IF UsePreferred /\ ValidZone(attendee_timezones["primary"])
       THEN LET w == PreferredWindow(date) IN IF w[1] >= w[2] THEN <<>> ELSE w
       ELSE WorkingWindow(date)

\* Line 816: datetime.now() of the call under way; a later call of the same
\* behaviour reads the clock again
Now == IF earlier = <<>> THEN env.now ELSE env.later

\* Lines 989-996: the first position of the scan of a date.  raised: replace()
\* was given hour 24.
FirstPosition(date, window_start) ==
    IF date = DateOf(Now) /\ window_start < Now
       THEN LET hour   == (Now % 1440) \div 60
                minute == (((Now % 60) \div 30 + 1) * 30) % 60
                rounded == Combine(DateOf(Now), hour, minute)
            IN IF minute = 0
                  THEN [raised |-> hour + 1 > 23, value |-> rounded + 60]
                  ELSE [raised |-> FALSE, value |-> rounded]
       ELSE [raised |-> FALSE, value |-> window_start]


\* SlotEnd with the scan step in place of the requested duration
SlotEndStep(position, duration_minutes) == position + 30

\* Line 1000
SlotEnd(position, duration_minutes) == position + duration_minutes


\* Overlaps with closed intervals: touching a busy interval counts as a conflict
OverlapsClosed(position, slot_end, busy_start, busy_end) ==
    position <= busy_end /\ slot_end >= busy_start

\* Overlaps testing only whether the slot starts inside the busy block
OverlapsStartOnly(position, slot_end, busy_start, busy_end) ==
    position >= busy_start /\ position < busy_end

\* Line 1011: the slot overlaps the busy block
Overlaps(position, slot_end, busy_start, busy_end) ==
    ~(slot_end <= busy_start \/ position >= busy_end)

\* Lines 1007-1023
IsFree(position, slot_end) ==
    \A calendar_id \in DOMAIN all_busy_times :
        \A i \in 1..Len(all_busy_times[calendar_id]) :
            ~Overlaps(position, slot_end,
                      all_busy_times[calendar_id][i][1], all_busy_times[calendar_id][i][2])

\* Line 894
DayLoopRuns ==
    current_date <= DateOf(end_date) /\ Len(free_slots) < req.max_suggestions


\* SlotLoopRuns without the cap on the number of suggestions
SlotLoopRunsNoCap == current < day_end

\* Line 999
SlotLoopRuns ==
    current < day_end /\ Len(free_slots) < req.max_suggestions

\* NextPosition leaving the position where it is
NextPositionStuck(position) == position

\* Line 1029
NextPosition(position) == position + 30

-----------------------------------------------------------------------------
(* find_meeting_slots: the steps *)

\* Lines 812-838 and 856-859: the date range, and the timezones when detection
\* is disabled
Begin ==
    /\ pc = "start"
    /\ start_date' = IF req.date_start # <<>> THEN Combine(req.date_start[1], 0, 0)
                     ELSE Now
    /\ end_date' = IF req.date_end # <<>> THEN Combine(req.date_end[1], 0, 0)
                   ELSE start_date' + 7 * 1440
    /\ IF req.use_attendee_timezones
          THEN /\ attendee_timezones' = <<>>
               /\ pc' = "resolve"
          ELSE /\ attendee_timezones' = [c \in CalendarSet |-> req.timezone]
               /\ pc' = "query"
    /\ UNCHANGED <<req, env, earlier, all_busy_times, free_slots, slot_dates, current_date,
                   day_start, day_end, current, result, days_searched, calls,
                   examined, days_entered>>

\* Lines 841-855: one iteration of the loop over all_calendars
ResolveTimezone ==
    /\ pc = "resolve"
    /\ LET i == Cardinality(DOMAIN attendee_timezones) + 1
           calendar_id == AllCalendars[i]
           declared == get_calendar_timezone(calendar_id)
       IN /\ attendee_timezones' = attendee_timezones @@ (calendar_id :> ResolvedZone(calendar_id))
          /\ calls' = [calls EXCEPT !.declared[calendar_id] = @ + 1,
                                    !.events[calendar_id] =
                                        IF declared = "NONE" THEN @ + 1 ELSE @]
          /\ pc' = IF i = Len(AllCalendars) THEN "query" ELSE "resolve"
    /\ UNCHANGED <<req, env, earlier, start_date, end_date, all_busy_times, free_slots,
                   slot_dates, current_date, day_start, day_end, current, result,
                   days_searched, examined, days_entered>>


\* QueryFreeBusy taking a failed query for an empty response and going on
QueryFreeBusyGoesOn ==
    /\ pc = "query"
    /\ calls' = [calls EXCEPT !.freebusy = @ + 1,
                             !.query = Append(@, [items |-> AllCalendars,
                                                  timeMin |-> time_min,
                                                  timeMax |-> time_max])]
    /\ all_busy_times' = IF env.freebusy_fail THEN <<>> ELSE env.freebusy
    /\ current_date' = DateOf(start_date)
    /\ pc' = "day"
    /\ UNCHANGED <<req, env, earlier, start_date, end_date, attendee_timezones, free_slots,
                   slot_dates, day_start, day_end, current, result, days_searched,
                   examined, days_entered>>

\* Lines 861-892 and 1086-1091: the free/busy query; the call ends when it raises
QueryFreeBusy ==
    /\ pc = "query"
    /\ calls' = [calls EXCEPT !.freebusy = @ + 1,
                             !.query = Append(@, [items |-> AllCalendars,
                                                  timeMin |-> time_min,
                                                  timeMax |-> time_max])]
    /\ IF env.freebusy_fail
          THEN /\ result' = "error"
               /\ pc' = "done"
               /\ UNCHANGED <<all_busy_times, current_date>>
          ELSE /\ all_busy_times' = env.freebusy
               /\ current_date' = DateOf(start_date)
               /\ pc' = "day"
               /\ UNCHANGED result
    /\ UNCHANGED <<req, env, earlier, start_date, end_date, attendee_timezones, free_slots,
                   slot_dates, day_start, day_end, current, days_searched,
                   examined, days_entered>>

\* Lines 894-996: one iteration of the day loop up to the slot loop
DayStep ==
    /\ pc = "day"
    /\ DayLoopRuns
    /\ days_entered' = days_entered + 1
    /\ IF SkipsWeekday(current_date) \/ DailyWindow(current_date) = <<>>
          THEN /\ current_date' = current_date + 1
               /\ UNCHANGED <<day_start, day_end, current, result, pc>>
          ELSE LET w == DailyWindow(current_date)
                   first == FirstPosition(current_date, w[1])
               IN /\ day_start' = w[1]
                  /\ day_end' = w[2]
                  /\ IF first.raised
                        THEN /\ result' = "error"
                             /\ pc' = "done"
                             /\ UNCHANGED current
                        ELSE /\ current' = first.value
                             /\ pc' = "slot"
                             /\ UNCHANGED result
                  /\ UNCHANGED current_date
    /\ UNCHANGED <<req, env, earlier, start_date, end_date, attendee_timezones,
                   all_busy_times, free_slots, slot_dates, days_searched, calls,
                   examined>>

\* Lines 999-1029: one iteration of the slot loop
SlotStep ==
    /\ pc = "slot"
    /\ SlotLoopRuns
    /\ examined' = examined + 1
    /\ LET slot_end == SlotEnd(current, req.duration_minutes) IN
       IF slot_end > day_end
          THEN \* break, then line 1032
               /\ current_date' = current_date + 1
               /\ pc' = "day"
               /\ UNCHANGED <<free_slots, slot_dates, current>>
          ELSE /\ IF IsFree(current, slot_end)
                     THEN /\ free_slots' = Append(free_slots, <<current, slot_end>>)
                          /\ slot_dates' = Append(slot_dates, current_date)
                     ELSE UNCHANGED <<free_slots, slot_dates>>
               /\ current' = NextPosition(current)
               /\ UNCHANGED <<current_date, pc>>
    /\ UNCHANGED <<req, env, earlier, start_date, end_date, attendee_timezones,
                   all_busy_times, day_start, day_end, result, days_searched,
                   calls, days_entered>>

\* EndDay staying on the same date
EndDayStaying ==
    /\ pc = "slot"
    /\ ~SlotLoopRuns
    /\ pc' = "day"
    /\ UNCHANGED <<req, env, earlier, start_date, end_date, attendee_timezones,
                   all_busy_times, free_slots, slot_dates, current_date, day_start,
                   day_end, current, result, days_searched, calls, examined,
                   days_entered>>

\* Lines 999 and 1032: the slot loop ends, the day loop moves to the next date
EndDay ==
    /\ pc = "slot"
    /\ ~SlotLoopRuns
    /\ current_date' = current_date + 1
    /\ pc' = "day"
    /\ UNCHANGED <<req, env, earlier, start_date, end_date, attendee_timezones,
                   all_busy_times, free_slots, slot_dates, day_start, day_end,
                   current, result, days_searched, calls, examined, days_entered>>

\* Lines 894 and 1036-1084: the day loop ends, the result is formatted
Finish ==
    /\ pc = "day"
    /\ ~DayLoopRuns
    /\ IF free_slots = <<>>
          THEN /\ result' = "no_slots"
               /\ days_searched' = DaysBetween(start_date, end_date)
          ELSE /\ result' = "slots"
               /\ UNCHANGED days_searched
    /\ pc' = "done"
    /\ UNCHANGED <<req, env, earlier, start_date, end_date, attendee_timezones,
                   all_busy_times, free_slots, slot_dates, current_date, day_start,
                   day_end, current, calls, examined, days_entered>>

Next ==
    \/ Begin
    \/ ResolveTimezone
    \/ QueryFreeBusy
    \/ DayStep
    \/ SlotStep
    \/ EndDay
    \/ Finish

\* CallAgain with free_slots living on from one call to the next
CallAgainKeepingSlots ==
    /\ pc = "done"
    /\ earlier = <<>>
    /\ earlier' = <<[result |-> result, free_slots |-> free_slots]>>
    /\ pc' = "start"
    /\ start_date' = 0
    /\ end_date' = 0
    /\ attendee_timezones' = <<>>
    /\ all_busy_times' = <<>>
    /\ current_date' = 0
    /\ day_start' = 0
    /\ day_end' = 0
    /\ current' = 0
    /\ result' = "running"
    /\ days_searched' = 0
    /\ calls' = [declared |-> [c \in DOMAIN calls.declared |-> 0],
                 events   |-> [c \in DOMAIN calls.events |-> 0],
                 freebusy |-> 0, query |-> <<>>]
    /\ examined' = 0
    /\ days_entered' = 0
    /\ UNCHANGED <<req, env, free_slots, slot_dates>>

\* The caller invokes find_meeting_slots once more with the same arguments
\* (mcp_calendar.py, find_meeting_slots_tool): every name of lines 816-891 is
\* a local of the new call, nothing is kept at module level
CallAgain ==
    /\ pc = "done"
    /\ earlier = <<>>
    /\ earlier' = <<[result |-> result, free_slots |-> free_slots]>>
    /\ pc' = "start"
    /\ start_date' = 0
    /\ end_date' = 0
    /\ attendee_timezones' = <<>>
    /\ all_busy_times' = <<>>
    /\ free_slots' = <<>>
    /\ slot_dates' = <<>>
    /\ current_date' = 0
    /\ day_start' = 0
    /\ day_end' = 0
    /\ current' = 0
    /\ result' = "running"
    /\ days_searched' = 0
    /\ calls' = [declared |-> [c \in DOMAIN calls.declared |-> 0],
                 events   |-> [c \in DOMAIN calls.events |-> 0],
                 freebusy |-> 0, query |-> <<>>]
    /\ examined' = 0
    /\ days_entered' = 0
    /\ UNCHANGED <<req, env>>

\* Two calls in a row
NextTwice ==
    \/ Next
    \/ CallAgain

-----------------------------------------------------------------------------
(* The calls the model starts from *)

\* Bounds of the model
MaxDay == 2
MaxSuggestions == 3
MaxBusy == 2
MaxEvents == 3

Calendars == {"primary", "a@x.com", "b@x.com"}

\* An event whose start and end carry a timezone annotation
AnnotatedEvent(tz) ==
    [start |-> [dateTime |-> TRUE, timeZone |-> tz],
     end   |-> [dateTime |-> TRUE, timeZone |-> tz]]

\* Busy blocks of the free/busy response: adjacent, overlapping, and one that
\* covers the whole window of day 0
BusyBlocks ==
    { <<Combine(0, 9, 0), Combine(0, 9, 30)>>,
      <<Combine(0, 9, 30), Combine(0, 10, 30)>>,
      <<Combine(0, 9, 15), Combine(0, 10, 0)>>,
      <<Combine(0, 8, 0), Combine(0, 12, 0)>> }

SeqsUpTo(S, n) == UNION {[1..k -> S] : k \in 0..n}

\* The state at the call of find_meeting_slots
InitWith(requests, envs) ==
    /\ req \in requests
    /\ env \in envs
    /\ pc = "start"
    /\ start_date = 0
    /\ end_date = 0
    /\ attendee_timezones = <<>>
    /\ all_busy_times = <<>>
    /\ free_slots = <<>>
    /\ slot_dates = <<>>
    /\ current_date = 0
    /\ day_start = 0
    /\ day_end = 0
    /\ current = 0
    /\ result = "running"
    /\ days_searched = 0
    /\ calls = [declared |-> [c \in Calendars |-> 0],
                events   |-> [c \in Calendars |-> 0],
                freebusy |-> 0, query |-> <<>>]
    /\ examined = 0
    /\ days_entered = 0
    /\ earlier = <<>>

\* The scan: one attendee, everybody in UTC, working hours 9-11, every date
\* range of days 0..MaxDay (date_end before date_start included), durations
\* that are negative, zero, a multiple of the step and not, every list of at
\* most MaxBusy busy blocks for the organizer
ScanRequests ==
    [attendees: {<<"a@x.com">>},
     duration_minutes: {0 - 30, 0, 30, 45, 60},
     date_start: {<<d>> : d \in 0..MaxDay},
     date_end: {<<d>> : d \in 0..MaxDay},
     preferred_time_start: {<<>>},
     preferred_time_end: {<<>>},
     earliest_hour: {9},
     latest_hour: {11},
     timezone: {"UTC"},
     max_suggestions: 1..MaxSuggestions,
     weekdays_only: {TRUE},
     allowed_weekdays: {{}},
     use_attendee_timezones: {TRUE}]

\* The collaborators' answers of a call whose participants all declare UTC
UtcEnv(freebusy_fail, busy_primary, busy_attendee, now) ==
    [declared      |-> [c \in Calendars |-> "UTC"],
     events_fail   |-> [c \in Calendars |-> FALSE],
     events        |-> [c \in Calendars |-> <<>>],
     freebusy_fail |-> freebusy_fail,
     freebusy      |-> ("primary" :> busy_primary) @@ ("a@x.com" :> busy_attendee),
     now           |-> now,
     utc_offset    |-> 0]

ScanEnvs ==
    { UtcEnv(FALSE, bp, ba, n) :
        bp \in SeqsUpTo(BusyBlocks, MaxBusy),
        ba \in {<<>>, <<<<Combine(1, 9, 30), Combine(1, 10, 0)>>>>},
        n \in {Combine(0 - 1, 12, 0), Combine(0, 9, 40)} }
    \cup
    { UtcEnv(TRUE, <<>>, <<>>, n) : n \in {Combine(0 - 1, 12, 0), Combine(0, 9, 40)} }

Init == InitWith(ScanRequests, ScanEnvs)

Spec == Init /\ [][Next]_vars

\* Timezone detection: two attendees; for each calendar the declared-timezone
\* lookup raises, yields nothing or yields a zone, and the event listing
\* raises, is empty, has no annotation or has one
EventLists ==
    { <<>>,
      <<AnnotatedEvent("NONE")>>,
      <<AnnotatedEvent("Europe/Paris")>> }

ResolveRequests ==
    [attendees: {<<"a@x.com", "b@x.com">>},
     duration_minutes: {30},
     date_start: {<<0>>},
     date_end: {<<0>>},
     preferred_time_start: {<<>>},
     preferred_time_end: {<<>>},
     earliest_hour: {9},
     latest_hour: {17},
     timezone: {"UTC"},
     max_suggestions: {2},
     weekdays_only: {TRUE},
     allowed_weekdays: {{}},
     use_attendee_timezones: {TRUE}]

ResolveEnvs ==
    [declared      : [Calendars -> {"FAIL", "NONE", "Asia/Jerusalem", "America/New_York"}],
     events_fail   : [Calendars -> BOOLEAN],
     events        : [Calendars -> EventLists],
     freebusy_fail : BOOLEAN,
     freebusy      : {[c \in Calendars |-> <<>>]},
     now           : {Combine(0 - 1, 12, 0)},
     utc_offset    : {0}]

InitResolve == InitWith(ResolveRequests, ResolveEnvs)

SpecResolve == InitResolve /\ [][Next]_vars

\* Timezones and windows: the organizer and one attendee in UTC, Los Angeles
\* or Jerusalem; no preferred window, a full one, one with the end only, a
\* malformed one; two pairs of hour bounds; Thursday or Friday to Monday; a
\* call made the day before, or late on day 0
ZoneRequests ==
    { [attendees |-> <<"a@x.com">>,
       duration_minutes |-> dur,
       date_start |-> <<ds>>,
       date_end |-> <<MaxDay + 2>>,
       preferred_time_start |-> pref[1],
       preferred_time_end |-> pref[2],
       earliest_hour |-> hours[1],
       latest_hour |-> hours[2],
       timezone |-> "UTC",
       max_suggestions |-> ms,
       weekdays_only |-> wo,
       allowed_weekdays |-> {},
       use_attendee_timezones |-> TRUE] :
      dur \in {30, 60},
      ds \in {0, 1},
      pref \in { <<<<>>, <<>>>>, <<<<15, 0>>, <<17, 0>>>>, <<<<9, 30>>, <<10, 30>>>>,
                 <<<<17, 0>>, <<15, 0>>>>, <<<<>>, <<10, 0>>>> },
      hours \in { <<9, 11>>, <<7, 20>> },
      ms \in {2, 10},
      wo \in BOOLEAN }

ZoneEnvs ==
    { [declared      |-> ("primary" :> zp) @@ ("a@x.com" :> za) @@ ("b@x.com" :> "UTC"),
       events_fail   |-> [c \in Calendars |-> FALSE],
       events        |-> [c \in Calendars |-> <<>>],
       freebusy_fail |-> ff,
       freebusy      |-> ("primary" :> <<>>) @@ ("a@x.com" :> ba),
       now           |-> n,
       utc_offset    |-> 0] :
      n \in {Combine(0 - 1, 12, 0), Combine(0, 23, 10)},
      zp \in {"UTC", "America/Los_Angeles", "Asia/Jerusalem"},
      za \in {"UTC", "America/Los_Angeles", "Asia/Jerusalem"},
      ff \in BOOLEAN,
      ba \in {<<>>, <<<<Combine(0, 15, 0), Combine(0, 16, 0)>>>>} }

InitZones == InitWith(ZoneRequests, ZoneEnvs)

SpecZones == InitZones /\ [][Next]_vars

\* The clock: calls made early, in the middle and late on days 0 and 1, on a
\* machine whose local time is UTC, behind it or ahead of it; the range
\* starts today (the default), on day 0 or on day 1
NowRequests ==
    [attendees: {<<"a@x.com">>},
     duration_minutes: {30, 45},
     date_start: {<<>>, <<0>>, <<1>>},
     date_end: {<<>>, <<1>>},
     preferred_time_start: {<<>>},
     preferred_time_end: {<<>>},
     earliest_hour: {7, 9},
     latest_hour: {11, 20},
     timezone: {"UTC"},
     max_suggestions: {1, 3},
     weekdays_only: {TRUE},
     allowed_weekdays: {{}},
     use_attendee_timezones: {TRUE}]

NowEnvs ==
    [declared      : {[c \in Calendars |-> "UTC"]},
     events_fail   : {[c \in Calendars |-> FALSE]},
     events        : {[c \in Calendars |-> <<>>]},
     freebusy_fail : BOOLEAN,
     freebusy      : {("primary" :> <<>>) @@ ("a@x.com" :> <<>>)},
     now           : {Combine(0, 6, 0), Combine(0, 9, 10), Combine(0, 9, 30),
                      Combine(0, 23, 40), Combine(1, 10, 0)},
     utc_offset    : {0 - 300, 0, 120}]

InitNow == InitWith(NowRequests, NowEnvs)

SpecNow == InitNow /\ [][Next]_vars

\* Two calls with the same arguments and the same answers: one attendee in
\* UTC, working hours 9-11, date_start absent or day 0, the clock of the second
\* call equal to or later than the clock of the first
TwiceRequests ==
    [attendees : {<<"a@x.com">>},
     duration_minutes : {30, 60},
     date_start : {<<>>, <<0>>},
     date_end : {<<0>>, <<1>>},
     preferred_time_start : {<<>>},
     preferred_time_end : {<<>>},
     earliest_hour : {9},
     latest_hour : {11},
     timezone : {"UTC"},
     max_suggestions : {1, MaxSuggestions + 7},
     weekdays_only : {TRUE},
     allowed_weekdays : {{}},
     use_attendee_timezones : {TRUE}]

TwiceEnvs ==
    { [declared |-> [c \in Calendars |-> "UTC"],
       events_fail |-> [c \in Calendars |-> FALSE],
       events |-> [c \in Calendars |-> <<>>],
       freebusy_fail |-> FALSE,
       freebusy |-> [c \in Calendars |->
                       IF c = "a@x.com" THEN busy_attendee ELSE <<>>],
       now |-> now,
       utc_offset |-> 0,
       later |-> later] :
      busy_attendee \in SeqsUpTo(BusyBlocks, 1),
      now \in {Combine(-1, 12, 0), Combine(0, 9, 10)},
      later \in {Combine(-1, 12, 0), Combine(0, 9, 10), Combine(0, 9, 40),
                 Combine(0, 10, 20)} }

InitTwice == InitWith(TwiceRequests, {e \in TwiceEnvs : e.later >= e.now})

SpecTwice == InitTwice /\ [][NextTwice]_vars

\* Termination: durations that are negative, zero, a multiple of the step and
\* not, ranges of one date, of several dates and reversed, windows that skip
\* every date (reversed preferred window, no common working hours), a weekend
\* inside the range, a cap of 1 and a cap never reached
TerminationRequests ==
    { [attendees |-> <<"a@x.com">>,
       duration_minutes |-> dur,
       date_start |-> <<ds>>,
       date_end |-> <<de>>,
       preferred_time_start |-> pref[1],
       preferred_time_end |-> pref[2],
       earliest_hour |-> 9,
       latest_hour |-> 11,
       timezone |-> "UTC",
       max_suggestions |-> ms,
       weekdays_only |-> wo,
       allowed_weekdays |-> {},
       use_attendee_timezones |-> TRUE] :
      dur \in {0 - 30, 0, 30, 45},
      ds \in {0, 1},
      de \in {0, MaxDay + 2},
      pref \in { <<<<>>, <<>>>>, <<<<9, 30>>, <<10, 30>>>>, <<<<17, 0>>, <<15, 0>>>> },
      ms \in {1, MaxSuggestions + 7},
      wo \in BOOLEAN }

TerminationEnvs ==
    { [declared      |-> ("primary" :> zp) @@ ("a@x.com" :> za) @@ ("b@x.com" :> "UTC"),
       events_fail   |-> [c \in Calendars |-> FALSE],
       events        |-> [c \in Calendars |-> <<>>],
       freebusy_fail |-> FALSE,
       freebusy      |-> ("primary" :> <<>>) @@ ("a@x.com" :> ba),
       now           |-> n,
       utc_offset    |-> 0] :
      n \in {Combine(0 - 1, 12, 0), Combine(0, 9, 40)},
      zp \in {"UTC", "America/Los_Angeles"},
      za \in {"UTC", "Asia/Jerusalem"},
      ba \in {<<>>, <<<<Combine(0, 9, 30), Combine(0, 10, 30)>>>>} }

InitTermination == InitWith(TerminationRequests, TerminationEnvs)

\* find_meeting_slots is one sequential function: a step that can be taken is
\* taken
SpecTermination == InitTermination /\ [][Next]_vars /\ WF_vars(Next)

\* Work weeks: two attendees, the organizer's calendar in every zone of the
\* work-week table, in zones outside it and in a zone ZoneInfo does not know,
\* the dates Thursday to Monday, allow-lists of weekdays, working hours whose
\* intersection over the zones is empty for some zones and not for others
WorkweekZones ==
    {"Asia/Jerusalem", "Asia/Tel_Aviv", "Asia/Riyadh", "Asia/Dubai", "Asia/Kuwait",
     "Asia/Amman", "UTC", "America/New_York", "Mars/Phobos"}

WeekRequests ==
    { [attendees |-> <<"a@x.com", "b@x.com">>,
       duration_minutes |-> 30,
       date_start |-> <<0>>,
       date_end |-> <<MaxDay + 2>>,
       preferred_time_start |-> <<>>,
       preferred_time_end |-> <<>>,
       earliest_hour |-> hours[1],
       latest_hour |-> hours[2],
       timezone |-> "UTC",
       max_suggestions |-> MaxSuggestions + 17,
       weekdays_only |-> wo,
       allowed_weekdays |-> aw,
       use_attendee_timezones |-> TRUE] :
      hours \in { <<9, 12>>, <<10, 11>> },
      wo \in BOOLEAN,
      aw \in { {}, {4}, {5, 6}, {0, 3} } }

WeekEnvs ==
    { [declared      |-> ("primary" :> zp) @@ ("a@x.com" :> za) @@ ("b@x.com" :> zb),
       events_fail   |-> [c \in Calendars |-> FALSE],
       events        |-> [c \in Calendars |-> <<>>],
       freebusy_fail |-> FALSE,
       freebusy      |-> [c \in Calendars |-> <<>>],
       now           |-> Combine(0 - 1, 12, 0),
       utc_offset    |-> 0] :
      zp \in WorkweekZones,
      za \in {"UTC", "Asia/Jerusalem", "America/New_York", "Mars/Phobos"},
      zb \in {"UTC", "Asia/Jerusalem"} }

InitWeek == InitWith(WeekRequests, WeekEnvs)

SpecWeek == InitWeek /\ [][Next]_vars

\* Boundaries: one attendee, everybody in UTC, day 0, working hours 8-11,
\* durations of one step, one and a half and two, every list of at most
\* MaxBusy busy blocks for the attendee, a cap that is never reached
BoundaryRequests ==
    [attendees : {<<"a@x.com">>},
     duration_minutes : {30, 45, 60},
     date_start : {<<0>>},
     date_end : {<<0>>},
     preferred_time_start : {<<>>},
     preferred_time_end : {<<>>},
     earliest_hour : {8},
     latest_hour : {11},
     timezone : {"UTC"},
     max_suggestions : {MaxSuggestions + 7},
     weekdays_only : {TRUE},
     allowed_weekdays : {{}},
     use_attendee_timezones : {TRUE}]

BoundaryEnvs ==
    { UtcEnv(FALSE, busy_primary, busy_attendee, Combine(0 - 1, 12, 0)) :
        busy_primary \in SeqsUpTo(BusyBlocks, 1),
        busy_attendee \in SeqsUpTo(BusyBlocks, MaxBusy) }

InitBoundary == InitWith(BoundaryRequests, BoundaryEnvs)

SpecBoundary == InitBoundary /\ [][Next]_vars

\* Timezone detection switched on and off: one attendee, the `timezone`
\* argument UTC, west of UTC and east of UTC, working hours 9-11 with and
\* without a preferred window inside them, days 0..1
FixedRequests ==
    { [attendees |-> <<"a@x.com">>,
       duration_minutes |-> 30,
       date_start |-> <<0>>,
       date_end |-> <<de>>,
       preferred_time_start |-> pref[1],
       preferred_time_end |-> pref[2],
       earliest_hour |-> 9,
       latest_hour |-> 11,
       timezone |-> tz,
       max_suggestions |-> ms,
       weekdays_only |-> wo,
       allowed_weekdays |-> {},
       use_attendee_timezones |-> detect] :
      de \in {0, 1},
      pref \in { <<<<>>, <<>>>>, <<<<9, 30>>, <<10, 30>>>> },
      tz \in {"UTC", "America/New_York", "Asia/Jerusalem"},
      ms \in {1, MaxSuggestions + 7},
      wo \in BOOLEAN,
      detect \in BOOLEAN }

FixedEnvs ==
    { [declared      |-> ("primary" :> zp) @@ ("a@x.com" :> "UTC") @@ ("b@x.com" :> "UTC"),
       events_fail   |-> [c \in Calendars |-> FALSE],
       events        |-> [c \in Calendars |-> <<>>],
       freebusy_fail |-> FALSE,
       freebusy      |-> ("primary" :> <<>>) @@ ("a@x.com" :> ba),
       now           |-> Combine(0 - 1, 12, 0),
       utc_offset    |-> 0] :
      zp \in {"UTC", "Europe/Paris"},
      ba \in {<<>>, <<<<Combine(0, 9, 30), Combine(0, 10, 30)>>>>} }

InitFixed == InitWith(FixedRequests, FixedEnvs)

SpecFixed == InitFixed /\ [][Next]_vars

\* Inference from events: the organizer's calendar declares no timezone and
\* lists at most MaxEvents events, each with or without a dateTime and a
\* timeZone in its start and in its end
EventShape(start_dt, start_tz, end_dt, end_tz) ==
    [start |-> [dateTime |-> start_dt, timeZone |-> start_tz],
     end   |-> [dateTime |-> end_dt, timeZone |-> end_tz]]

ListedEvents ==
    { EventShape(TRUE, "Europe/Paris", TRUE, "Europe/Paris"),
      EventShape(TRUE, "America/New_York", TRUE, "America/New_York"),
      EventShape(TRUE, "NONE", TRUE, "Europe/Paris"),
      EventShape(TRUE, "America/New_York", TRUE, "Europe/Paris"),
      EventShape(FALSE, "Europe/Paris", FALSE, "America/New_York"),
      EventShape(TRUE, "NONE", TRUE, "NONE"),
      EventShape(FALSE, "NONE", TRUE, "America/New_York") }

InferRequests ==
    [attendees : {<<"a@x.com">>},
     duration_minutes : {30},
     date_start : {<<0>>},
     date_end : {<<0>>},
     preferred_time_start : {<<>>},
     preferred_time_end : {<<>>},
     earliest_hour : {9},
     latest_hour : {17},
     timezone : {"UTC"},
     max_suggestions : {1},
     weekdays_only : {TRUE},
     allowed_weekdays : {{}},
     use_attendee_timezones : {TRUE}]

InferEnvs ==
    { [declared      |-> ("primary" :> "NONE") @@ ("a@x.com" :> "UTC") @@ ("b@x.com" :> "UTC"),
       events_fail   |-> [c \in Calendars |-> FALSE],
       events        |-> [c \in Calendars |-> IF c = "primary" THEN events ELSE <<>>],
       freebusy_fail |-> FALSE,
       freebusy      |-> [c \in Calendars |-> <<>>],
       now           |-> Combine(0 - 1, 12, 0),
       utc_offset    |-> 0] :
      events \in SeqsUpTo(ListedEvents, MaxEvents) }

InitInfer == InitWith(InferRequests, InferEnvs)

SpecInfer == InitInfer /\ [][Next]_vars

\* Coverage of the free/busy response: one attendee, everybody in UTC, day 0,
\* working hours 9-11; the response has an entry for every subset of the two
\* participating calendars, each entry with at most one busy block
CoverageRequests ==
    [attendees : {<<"a@x.com">>},
     duration_minutes : {30},
     date_start : {<<0>>},
     date_end : {<<0>>},
     preferred_time_start : {<<>>},
     preferred_time_end : {<<>>},
     earliest_hour : {9},
     latest_hour : {11},
     timezone : {"UTC"},
     max_suggestions : {1, MaxSuggestions},
     weekdays_only : {TRUE},
     allowed_weekdays : {{}},
     use_attendee_timezones : {TRUE}]

CoverageEnvs ==
    { [declared      |-> [c \in Calendars |-> "UTC"],
       events_fail   |-> [c \in Calendars |-> FALSE],
       events        |-> [c \in Calendars |-> <<>>],
       freebusy_fail |-> FALSE,
       freebusy      |-> response,
       now           |-> Combine(0 - 1, 12, 0),
       utc_offset    |-> 0] :
      response \in UNION { [covered -> SeqsUpTo(BusyBlocks, 1)] :
                             covered \in SUBSET {"primary", "a@x.com"} } }

InitCoverage == InitWith(CoverageRequests, CoverageEnvs)

SpecCoverage == InitCoverage /\ [][Next]_vars

-----------------------------------------------------------------------------
(* Properties *)

\* The slots the call returns
Returned == IF result = "slots" THEN free_slots ELSE <<>>

\* Both bounds of the preferred window are supplied
BothPreferred == req.preferred_time_start # <<>> /\ req.preferred_time_end # <<>>

\* C1: no slot of the accumulated (hence of the returned) list overlaps a busy
\* interval stored for any calendar of the busy index, where [s, e) and
\* [b1, b2) overlap iff s < b2 and b1 < e; for any number and order of intervals.
C1_NoSlotOverlapsBusy ==
    \A i \in 1..Len(free_slots) :
        \A c \in DOMAIN all_busy_times :
            \A j \in 1..Len(all_busy_times[c]) :
                ~(/\ free_slots[i][1] < all_busy_times[c][j][2]
                  /\ all_busy_times[c][j][1] < free_slots[i][2])

\* A call returns a slot that starts where a busy block ends, from a busy list
\* that is out of order and whose blocks overlap one another
C1_Witness ==
    /\ pc = "done"
    /\ result = "slots"
    /\ req.duration_minutes > 0
    /\ \E c \in DOMAIN all_busy_times :
          LET b == all_busy_times[c] IN
          /\ Len(b) >= 2
          /\ b[2][1] < b[1][1]
          /\ b[1][1] < b[2][2] /\ b[2][1] < b[1][2]
          /\ \E i \in 1..Len(free_slots) : free_slots[i][1] = b[1][2]

\* C2: every slot of the accumulated list has end - start = duration_minutes
C2_SlotLengthIsDuration ==
    \A i \in 1..Len(free_slots) :
        free_slots[i][2] - free_slots[i][1] = req.duration_minutes

\* A call returns two slots of 45 minutes
C2_Witness ==
    /\ pc = "done"
    /\ result = "slots"
    /\ req.duration_minutes = 45
    /\ Len(free_slots) >= 2

\* The positions the scan of a date tests, and whether one of them is free
HasFreeCandidate(date) ==
    /\ ~SkipsWeekday(date)
    /\ DailyWindow(date) # <<>>
    /\ LET w == DailyWindow(date)
           first == FirstPosition(date, w[1])
       IN /\ ~first.raised
          /\ \E k \in 0..48 :
                LET position == first.value + 30 * k IN
                /\ position < w[2]
                /\ position + req.duration_minutes <= w[2]
                /\ \A c \in DOMAIN all_busy_times :
                      \A j \in 1..Len(all_busy_times[c]) :
                          ~(/\ position < all_busy_times[c][j][2]
                            /\ all_busy_times[c][j][1] < position + req.duration_minutes)

\* The dates of the requested range
RangeDates == DateOf(start_date)..DateOf(end_date)

C3_Cap ==
    /\ Len(free_slots) <= req.max_suggestions
    /\ (pc = "done" /\ result # "error" /\ req.max_suggestions = 1
            /\ \E d \in RangeDates : HasFreeCandidate(d))
        => /\ result = "slots"
           /\ Len(free_slots) = 1
           /\ HasFreeCandidate(slot_dates[1])
           /\ \A d \in RangeDates : d < slot_dates[1] => ~HasFreeCandidate(d)

C3_NothingAfterCap ==
    Len(free_slots) >= req.max_suggestions
        => examined' = examined /\ days_entered' = days_entered /\ free_slots' = free_slots

\* C3: the accepted slots never outnumber max_suggestions, no date is entered
\* and no candidate is formed once the count has reached max_suggestions, and
\* with max_suggestions = 1 the result is the one slot of the earliest date of
\* the range that has a free candidate.
C3_CapAndEarliest == [](C3_Cap) /\ [][C3_NothingAfterCap]_vars

\* With max_suggestions = 1, days 0 and 1 both have free candidates, day 0's
\* first candidate is busy, and the call returns one slot, of day 0
C3_Witness ==
    /\ pc = "done"
    /\ result = "slots"
    /\ req.max_suggestions = 1
    /\ Len(free_slots) = 1
    /\ slot_dates[1] = 0
    /\ free_slots[1][1] > day_start
    /\ HasFreeCandidate(0) /\ HasFreeCandidate(1)
    /\ 1 \in RangeDates

\* No collaborator has been called
NoCalls ==
    /\ calls.freebusy = 0
    /\ \A c \in Calendars : calls.declared[c] = 0 /\ calls.events[c] = 0

\* C7: a request whose date_end is earlier than its date_start fails with a
\* configuration error, and no collaborator is called before it fails.
C7_ReversedRangeIsRejected ==
    (req.date_start # <<>> /\ req.date_end # <<>> /\ req.date_end[1] < req.date_start[1])
        => /\ NoCalls
           /\ pc = "done" => result = "error"

\* C8: a request with duration_minutes <= 0 is rejected with an error before
\* any candidate is formed, and no slot with end <= start is ever accepted.
C8_NonPositiveDurationIsRejected ==
    /\ req.duration_minutes <= 0
          => /\ examined = 0
             /\ pc = "done" => result = "error"
    /\ \A i \in 1..Len(free_slots) : free_slots[i][1] < free_slots[i][2]

\* C9: when the free/busy query fails the call ends in a failure result: no
\* date is entered, no candidate is formed, and neither a slot list nor the
\* "no slots found" result is returned.
C9_FreeBusyFailureFailsCall ==
    env.freebusy_fail
        => /\ days_entered = 0
           /\ examined = 0
           /\ free_slots = <<>>
           /\ pc \notin {"day", "slot"}
           /\ result \in {"running", "error"}
           /\ pc = "done" => result = "error"

\* The free/busy query has been issued, has failed, and the call has ended
C9_Witness ==
    /\ env.freebusy_fail
    /\ calls.freebusy = 1
    /\ pc = "done"
    /\ result = "error"

\* The declared-timezone lookup and the recent-events lookup of a calendar
\* both raise or yield nothing
LookupsYieldNothing(c) ==
    /\ env.declared[c] \in {"FAIL", "NONE"}
    /\ \/ env.events_fail[c]
       \/ \A i \in 1..Len(env.events[c]) :
             env.events[c][i].start.timeZone = "NONE" /\ env.events[c][i].end.timeZone = "NONE"

\* The zone of a calendar as its own answers alone decide it
ZoneFromOwnAnswers(declared, events_fail, events) ==
    IF declared \notin {"FAIL", "NONE"} THEN declared
    ELSE IF ~events_fail /\ InferFromEvents(events) # "NONE" THEN InferFromEvents(events)
    ELSE "UTC"

\* C10: every participating calendar is resolved to a timezone; a calendar
\* whose two lookups raise or yield nothing is resolved to "UTC", the call goes
\* on to the free/busy query, and every calendar's zone is the one its own
\* answers decide, whatever happened to the lookups of the others.
C10_ResolutionAlwaysSucceeds ==
    /\ pc \notin {"start", "resolve"} => DOMAIN attendee_timezones = CalendarSet
    /\ \A c \in DOMAIN attendee_timezones :
          /\ attendee_timezones[c] \notin {"FAIL", "NONE"}
          /\ LookupsYieldNothing(c) => attendee_timezones[c] = "UTC"
          /\ attendee_timezones[c] =
                ZoneFromOwnAnswers(env.declared[c], env.events_fail[c], env.events[c])
    /\ result = "error" => calls.freebusy = 1 /\ env.freebusy_fail

\* The lookups of one attendee raise, that attendee is resolved to UTC, the
\* other participants keep their declared zones, and the call returns slots
C10_Witness ==
    /\ pc = "done"
    /\ result = "slots"
    /\ env.declared["a@x.com"] = "FAIL"
    /\ env.events_fail["a@x.com"]
    /\ attendee_timezones["a@x.com"] = "UTC"
    /\ attendee_timezones["primary"] = "Asia/Jerusalem"
    /\ attendee_timezones["b@x.com"] = "America/New_York"

\* C4: with weekdays_only and a participating calendar resolved to
\* Asia/Jerusalem, no returned slot starts on a Friday or a Saturday of the
\* Asia/Jerusalem calendar, whatever the other zones, the hour bounds and the
\* preferred window.
C4_NoJerusalemWeekendSlot ==
    (req.weekdays_only /\ req.use_attendee_timezones
        /\ \E c \in DOMAIN attendee_timezones : attendee_timezones[c] = "Asia/Jerusalem")
    => \A i \in 1..Len(Returned) :
          Weekday(DateOf(FromUtc(Returned[i][1], "Asia/Jerusalem"))) \notin {4, 5}

\* The preferred time-of-day range of a date in the zone tz, in UTC
PreferredRangeUtc(date, tz) ==
    <<Combine(date, req.preferred_time_start[1], req.preferred_time_start[2]) - UtcOffset(tz),
      Combine(date, req.preferred_time_end[1], req.preferred_time_end[2]) - UtcOffset(tz)>>

\* C5: when both preferred times are supplied, the window a date is scanned
\* with is exactly the preferred range of that date in the primary calendar's
\* resolved timezone, converted to UTC, and every accepted slot lies inside it;
\* the hour bounds and the attendees' zones play no part.
C5_PreferredWindowOverrides ==
    (BothPreferred /\ pc \notin {"start", "resolve"})
    => /\ \A i \in 1..Len(free_slots) :
             LET W == PreferredRangeUtc(slot_dates[i], attendee_timezones["primary"]) IN
             W[1] <= free_slots[i][1] /\ free_slots[i][2] <= W[2]
       /\ pc = "slot" =>
             <<day_start, day_end>> =
                 PreferredRangeUtc(current_date, attendee_timezones["primary"])

\* With a preferred window of 15:00-17:00 and the organizer in Los Angeles, the
\* call returns a slot at 23:00 UTC, outside the 9-11 hours of the attendee
\* in Jerusalem and of the organizer
C5_Witness ==
    /\ pc = "done"
    /\ result = "slots"
    /\ BothPreferred
    /\ req.earliest_hour = 9 /\ req.latest_hour = 11
    /\ attendee_timezones["primary"] = "America/Los_Angeles"
    /\ attendee_timezones["a@x.com"] = "Asia/Jerusalem"
    /\ \E i \in 1..Len(free_slots) : free_slots[i][1] = Combine(slot_dates[i], 23, 0)

\* The instant of the call in UTC: the machine's local time less its offset
NowUtc == env.now - env.utc_offset

\* C6: no returned slot starts before the instant of the call, for every
\* date range and every offset between the machine's local clock and UTC.
C6_NoSlotInThePast ==
    \A i \in 1..Len(Returned) : Returned[i][1] >= NowUtc

ReturnedAgain == earlier # <<>> /\ pc = "done"

C12_Terminates ==
    /\ <>(pc = "done")
    /\ [][/\ (pc = "slot" /\ pc' = "slot") => current' = current + 30
          /\ (pc = "day" /\ pc' = "day") => current_date' = current_date + 1
          /\ (pc = "slot" /\ pc' = "day") => current_date' = current_date + 1]_vars

\* a call with a non-positive duration that examined candidates on several
\* dates, skipped a date, and returned
C12_Witness ==
    /\ pc = "done"
    /\ req.duration_minutes <= 0
    /\ examined > 2
    /\ days_entered > 3
    /\ current_date > DateOf(end_date)

\* C13: a call over the dates date_start..date_end that finds no slot returns
\* normally and reports as many days as the inclusive range has dates, 1 when
\* date_start = date_end
C13_DaysReportedIsInclusiveCount ==
    (/\ pc = "done"
     /\ free_slots = <<>>
     /\ ~env.freebusy_fail
     /\ req.date_start # <<>> /\ req.date_end # <<>>
     /\ req.date_start[1] <= req.date_end[1]) =>
        /\ result = "no_slots"
        /\ days_searched = req.date_end[1] - req.date_start[1] + 1

\* The intersection of the attendees' working hours on a date, in UTC, as
\* (latest start, earliest end); every zone is taken to be valid
HoursOverlapUtc(date) ==
    LET starts == {ToUtc(Combine(date, req.earliest_hour, 0), attendee_timezones[c]) :
                     c \in CalendarSet}
        ends   == {ToUtc(Combine(date, req.latest_hour, 0), attendee_timezones[c]) :
                     c \in CalendarSet}
    IN <<CHOOSE x \in starts : \A y \in starts : y <= x,
         CHOOSE x \in ends : \A y \in ends : x <= y>>

AllZonesValid == \A c \in CalendarSet : ValidZone(attendee_timezones[c])

\* C14: with an allow-list of weekdays, a date whose weekday is not in the list
\* is skipped, and a date whose weekday is in the list is scanned whenever the
\* attendees' working hours intersect, whatever the work weeks of their zones
C14_AllowListReplacesWorkWeek ==
    [][(pc = "day" /\ DayLoopRuns /\ req.allowed_weekdays # {}) =>
          IF Weekday(current_date) \notin req.allowed_weekdays
             THEN pc' = "day" /\ current_date' = current_date + 1
             ELSE (/\ AllZonesValid
                   /\ HoursOverlapUtc(current_date)[1] < HoursOverlapUtc(current_date)[2])
                  => pc' = "slot"]_vars

\* The busy intervals of every participating calendar
BusyIntervals ==
    UNION { {all_busy_times[c][i] : i \in 1..Len(all_busy_times[c])} :
              c \in CalendarSet \cap DOMAIN all_busy_times }

\* Scenario B: the only busy interval is 09:00-09:30 of day 0 and the
\* duration is 30 minutes
ScenarioB ==
    /\ req.duration_minutes = 30
    /\ env.freebusy["primary"] = <<>>
    /\ env.freebusy["a@x.com"] = <<<<Combine(0, 9, 0), Combine(0, 9, 30)>>>>

\* C15: a candidate of positive length that fits the window is appended
\* exactly when it ends at or before the start, or starts at or after the end,
\* of every busy interval, and the scan goes on 30 minutes later either way;
\* in scenario B the candidates of 08:30 and 09:30 are returned and the one of
\* 09:00 is not
C15_HalfOpenBoundaries ==
    /\ [][(/\ pc = "slot" /\ SlotLoopRuns
            /\ req.duration_minutes > 0
            /\ current + req.duration_minutes <= day_end) =>
              /\ pc' = "slot"
              /\ current' = current + 30
              /\ IF \A b \in BusyIntervals :
                        current + req.duration_minutes <= b[1] \/ b[2] <= current
                    THEN free_slots' =
                           Append(free_slots, <<current, current + req.duration_minutes>>)
                    ELSE free_slots' = free_slots]_vars
    /\ []((pc = "done" /\ ScenarioB) =>
             LET starts == {free_slots[i][1] : i \in 1..Len(free_slots)} IN
             /\ Combine(0, 8, 30) \in starts
             /\ Combine(0, 9, 30) \in starts
             /\ Combine(0, 9, 0) \notin starts)

\* scenario B has returned, with a slot that ends when the busy interval
\* starts and a slot that starts when it ends
C15_Witness ==
    /\ pc = "done"
    /\ ScenarioB
    /\ \E i, j \in 1..Len(free_slots) :
          /\ free_slots[i][2] = Combine(0, 9, 0)
          /\ free_slots[j][1] = Combine(0, 9, 30)

\* C16: with timezone detection disabled every participating calendar is
\* given the `timezone` argument, and every slot, read in that timezone, lies
\* within earliest_hour:00-latest_hour:00 of the date it was found on
C16_FixedHoursInSuppliedTimezone ==
    (~req.use_attendee_timezones /\ pc \notin {"start"}) =>
        /\ \A c \in CalendarSet : attendee_timezones[c] = req.timezone
        /\ \A i \in 1..Len(free_slots) :
              /\ FromUtc(free_slots[i][1], req.timezone)
                    >= Combine(slot_dates[i], req.earliest_hour, 0)
              /\ FromUtc(free_slots[i][2], req.timezone)
                    <= Combine(slot_dates[i], req.latest_hour, 0)

\* The timezones of all calendars are resolved
ZonesResolved == pc \in {"query", "day", "slot", "done"} /\ result # "error"

WorkingDayForAll(date) ==
    \A c \in CalendarSet :
        Weekday(date) \in get_workweek_for_timezone(attendee_timezones[c])

\* What find_working_hours_overlap returns for a date, with the arguments
\* find_meeting_slots passes at line 970
OverlapOf(date) ==
    find_working_hours_overlap(AllCalendars, attendee_timezones, date,
                               req.earliest_hour, req.latest_hour)

\* C17: on a date that is a working day in every attendee's zone, all zones
\* valid, find_working_hours_overlap returns (latest UTC start, earliest UTC
\* end) when the start is before the end and None otherwise; a date whose
\* result is None is left without a candidate examined and no slot is ever
\* found on such a date
C17_OverlapIsIntersection ==
    /\ [](ZonesResolved =>
            /\ \A date \in RangeDates :
                  (AllZonesValid /\ WorkingDayForAll(date)) =>
                     OverlapOf(date) =
                        IF HoursOverlapUtc(date)[1] < HoursOverlapUtc(date)[2]
                           THEN HoursOverlapUtc(date) ELSE <<>>
            /\ \A i \in 1..Len(slot_dates) : OverlapOf(slot_dates[i]) # <<>>)
    /\ [][(pc = "day" /\ DayLoopRuns /\ OverlapOf(current_date) = <<>>) =>
             /\ pc' = "day"
             /\ current_date' = current_date + 1
             /\ examined' = examined
             /\ free_slots' = free_slots]_vars

\* attendees in different valid zones, and a slot found inside the
\* intersection of their hours, which is shorter than anybody's hours
C17_Witness ==
    /\ pc = "done"
    /\ AllZonesValid
    /\ free_slots # <<>>
    /\ \E c, d \in CalendarSet : attendee_timezones[c] # attendee_timezones[d]
    /\ LET w == OverlapOf(slot_dates[1]) IN
         w # <<>> /\ w[2] - w[1] < 60 * (req.latest_hour - req.earliest_hour)

\* a working day of every attendee whose hours do not intersect was passed
C17_NoneDatePassed ==
    /\ pc = "done"
    /\ AllZonesValid
    /\ \E date \in RangeDates : WorkingDayForAll(date) /\ OverlapOf(date) = <<>>
    /\ days_entered > 2

\* C18: when the weekday of a date is outside the work week of the zone of at
\* least one attendee, find_working_hours_overlap returns None, whatever the
\* hours, the zones of the others and the place of that attendee in the
\* order; the day loop then leaves the date without examining a candidate
C18_OneNonWorkingAttendeeIsEnough ==
    /\ [](ZonesResolved =>
            \A date \in RangeDates :
               ~WorkingDayForAll(date) => OverlapOf(date) = <<>>)
    /\ [][(pc = "day" /\ DayLoopRuns /\ ~WorkingDayForAll(current_date)) =>
             /\ pc' = "day"
             /\ current_date' = current_date + 1
             /\ examined' = examined]_vars

\* weekdays_only is off, the last attendee of the order alone is outside
\* their work week on a date of the range, everybody's hours intersect, and
\* the call returned without a slot on that date
C18_Witness ==
    /\ pc = "done"
    /\ ~req.weekdays_only
    /\ req.allowed_weekdays = {}
    /\ AllZonesValid
    /\ HoursOverlapUtc(0)[1] < HoursOverlapUtc(0)[2]
    /\ \E date \in RangeDates :
          /\ Weekday(date) \in get_workweek_for_timezone(attendee_timezones["primary"])
          /\ Weekday(date) \in get_workweek_for_timezone(attendee_timezones["a@x.com"])
          /\ Weekday(date) \notin get_workweek_for_timezone(attendee_timezones["b@x.com"])
          /\ OverlapOf(date) = <<>>
          /\ \A i \in 1..Len(slot_dates) : slot_dates[i] # date

\* The work week the specification's table gives a timezone string
SundayToThursdayZones ==
    {"Asia/Jerusalem", "Asia/Tel_Aviv", "Asia/Riyadh", "Asia/Dubai", "Asia/Kuwait",
     "Asia/Amman"}

\* C19: for the zone of every calendar, known to ZoneInfo or not,
\* get_workweek_for_timezone returns a non-empty set of weekdays within 0..6:
\* Sunday to Thursday for the six zones of the table, Monday to Friday for
\* any other string; with weekdays_only a date is scanned only on a weekday of
\* that set for every calendar
C19_WorkweekTable ==
    ZonesResolved =>
       \A c \in CalendarSet :
          LET tz == attendee_timezones[c]
              week == get_workweek_for_timezone(tz)
          IN /\ week # {}
             /\ week \subseteq 0..6
             /\ week = IF tz \in SundayToThursdayZones
                          THEN {6, 0, 1, 2, 3} ELSE {0, 1, 2, 3, 4}
             /\ (pc = "slot" /\ req.weekdays_only) =>
                   IF tz \in SundayToThursdayZones
                      THEN Weekday(current_date) \in {6, 0, 1, 2, 3}
                      ELSE Weekday(current_date) \in {0, 1, 2, 3, 4}

\* a Sunday is scanned for an organizer in Asia/Amman
C19_Witness ==
    /\ pc = "slot"
    /\ req.weekdays_only
    /\ attendee_timezones["primary"] = "Asia/Amman"
    /\ Weekday(current_date) = 6

\* a date is scanned for an organizer whose zone ZoneInfo does not know
C19_UnknownZoneScanned ==
    /\ pc = "slot"
    /\ req.weekdays_only
    /\ attendee_timezones["primary"] = "Mars/Phobos"

\* C20: for each calendar the declared timezone is looked up once; the
\* events are listed, once, only when that lookup yielded nothing; a declared
\* timezone is the resolved value whatever the events say; and the resolved
\* value is "UTC", which no calendar declares and no event carries, only when
\* both lookups yielded nothing
C20_FallbackChainInOrder ==
    /\ \A c \in Calendars \ DOMAIN attendee_timezones :
          calls.declared[c] = 0 /\ calls.events[c] = 0
    /\ \A c \in DOMAIN attendee_timezones :
          /\ calls.declared[c] = 1
          /\ calls.events[c] = IF env.declared[c] \in {"FAIL", "NONE"} THEN 1 ELSE 0
          /\ env.declared[c] \notin {"FAIL", "NONE"} =>
                attendee_timezones[c] = env.declared[c]
          /\ (attendee_timezones[c] # env.declared[c] /\ attendee_timezones[c] # "UTC") =>
                /\ env.declared[c] \in {"FAIL", "NONE"}
                /\ ~env.events_fail[c]
                /\ attendee_timezones[c] = InferFromEvents(env.events[c])
          /\ attendee_timezones[c] = "UTC" => LookupsYieldNothing(c)

\* one calendar declares a zone while its events carry another, one declares
\* nothing and is resolved from its events, one yields nothing at all
C20_Witness ==
    /\ pc = "done"
    /\ env.declared["primary"] = "Asia/Jerusalem"
    /\ ~env.events_fail["primary"]
    /\ env.events["primary"] = <<AnnotatedEvent("Europe/Paris")>>
    /\ attendee_timezones["primary"] = "Asia/Jerusalem"
    /\ calls.events["primary"] = 0
    /\ env.declared["a@x.com"] = "NONE"
    /\ attendee_timezones["a@x.com"] = "Europe/Paris"
    /\ calls.events["a@x.com"] = 1
    /\ env.declared["b@x.com"] = "FAIL"
    /\ env.events["b@x.com"] = <<>>
    /\ attendee_timezones["b@x.com"] = "UTC"

\* What one event adds to the count: the zone of its start, or of its end when
\* the start carries none; "NONE" when it adds nothing
Contribution(event) ==
    IF event.start.timeZone # "NONE"
       THEN IF event.start.dateTime THEN event.start.timeZone ELSE "NONE"
       ELSE IF event.end.dateTime THEN event.end.timeZone ELSE "NONE"

CountOf(events, tz) == Cardinality({i \in 1..Len(events) : Contribution(events[i]) = tz})

FirstSeen(events, tz) == CHOOSE i \in 1..Len(events) :
                            /\ Contribution(events[i]) = tz
                            /\ \A j \in 1..(i - 1) : Contribution(events[j]) # tz

\* C21: infer_timezone_from_events returns a zone that some event contributes,
\* that no zone outnumbers, and that comes first in the list among the zones
\* with as many events; each event counts once at most; without any
\* annotation the result is None and the calendar is resolved to "UTC"
C21_MostCommonFirstSeen ==
    ("primary" \in DOMAIN attendee_timezones) =>
       LET events == env.events["primary"]
           zones  == {Contribution(events[i]) : i \in 1..Len(events)} \ {"NONE"}
           got    == infer_timezone_from_events("primary")
       IN /\ zones = {} => (got = "NONE" /\ attendee_timezones["primary"] = "UTC")
          /\ zones # {} =>
                /\ got \in zones
                /\ attendee_timezones["primary"] = got
                /\ \A tz \in zones :
                      \/ CountOf(events, tz) < CountOf(events, got)
                      \/ /\ CountOf(events, tz) = CountOf(events, got)
                         /\ FirstSeen(events, got) <= FirstSeen(events, tz)

\* two zones with one event each, the second one counted from the end of its
\* event: the first seen is the answer
C21_Witness ==
    /\ pc = "done"
    /\ env.events["primary"] =
          <<EventShape(TRUE, "America/New_York", TRUE, "Europe/Paris"),
            EventShape(TRUE, "NONE", TRUE, "Europe/Paris"),
            EventShape(TRUE, "NONE", TRUE, "NONE")>>
    /\ attendee_timezones["primary"] = "America/New_York"

\* C22: the free/busy collaborator is queried once at most, the query names
\* the organizer's calendar and then every attendee, and for each calendar the
\* declared-timezone lookup and the events lookup are issued once at most,
\* also when they fail; a calendar that does not take part is never asked
C22_EachCollaboratorCallOnce ==
    /\ calls.freebusy <= 1
    /\ Len(calls.query) = calls.freebusy
    /\ \A i \in 1..Len(calls.query) :
          calls.query[i].items = <<"primary">> \o req.attendees
    /\ pc = "done" => calls.freebusy = 1
    /\ \A c \in Calendars :
          /\ calls.declared[c] <= 1
          /\ calls.events[c] <= 1
          /\ c \notin ({"primary"} \cup {req.attendees[i] : i \in 1..Len(req.attendees)}) =>
                calls.declared[c] = 0 /\ calls.events[c] = 0

\* every lookup of one attendee failed and the free/busy query failed: each
\* was issued once and the call returned the error
C22_Witness ==
    /\ pc = "done"
    /\ result = "error"
    /\ env.freebusy_fail
    /\ calls.freebusy = 1
    /\ env.declared["a@x.com"] = "FAIL"
    /\ env.events_fail["a@x.com"]
    /\ calls.declared["a@x.com"] = 1
    /\ calls.events["a@x.com"] = 1

\* C23: every candidate the scan tests against the busy intervals lies inside
\* the span of the free/busy query, timeMin <= start and end <= timeMax
C23_QuerySpansEveryCandidate ==
    (/\ pc = "slot" /\ SlotLoopRuns
     /\ req.duration_minutes > 0
     /\ current + req.duration_minutes <= day_end) =>
        /\ Len(calls.query) = 1
        /\ calls.query[1].timeMin <= current
        /\ current + req.duration_minutes <= calls.query[1].timeMax

\* The candidates of a date as the scan is described: the positions
\* window.start + k * 30 with position + duration <= window.end that are free
\* for every calendar, for the dates of the range that are not skipped
FreeCandidates ==
    UNION { IF SkipsWeekday(date) \/ DailyWindow(date) = <<>> THEN {}
            ELSE LET w == DailyWindow(date) IN
                 { <<w[1] + 30 * k, w[1] + 30 * k + req.duration_minutes>> :
                     k \in { j \in 0..96 :
                               /\ w[1] + 30 * j + req.duration_minutes <= w[2]
                               /\ IsFree(w[1] + 30 * j,
                                         w[1] + 30 * j + req.duration_minutes) } } :
            date \in RangeDates }

\* The n earliest members of a set of slots, in increasing order of start
RECURSIVE EarliestFirst(_, _)
EarliestFirst(slots, n) ==
    IF slots = {} \/ n <= 0 THEN <<>>
    ELSE LET first == CHOOSE x \in slots : \A y \in slots : x[1] <= y[1]
         IN <<first>> \o EarliestFirst(slots \ {first}, n - 1)

NoDateIsToday == DateOf(env.now) \notin RangeDates

\* C24: when no date of the range is today, every position tested is the
\* window start plus a multiple of 30 minutes, and the list returned is the
\* first max_suggestions free candidates in date-then-time order, so the
\* opening of the window is returned on a day without busy intervals
C24_ListIsFirstFreeCandidates ==
    /\ (pc = "slot" /\ NoDateIsToday) => (current - day_start) % 30 = 0
    /\ (pc = "done" /\ result # "error" /\ NoDateIsToday) =>
          free_slots = EarliestFirst(FreeCandidates, req.max_suggestions)

\* The same for the calls whose duration is positive
C24_PositiveDurations ==
    req.duration_minutes > 0 => C24_ListIsFirstFreeCandidates

\* The first multiple of 30 minutes at or after an instant
BoundaryAtOrAfter(t) == ((t + 29) \div 30) * 30

\* C25: on today's date, when now is later than the start of the window, the
\* scan starts at the first 30-minute boundary at or after now, and the call
\* does not fail there, whatever the time of day
C25_StartsAtNextBoundary ==
    [][(/\ pc = "day" /\ DayLoopRuns
        /\ ~SkipsWeekday(current_date)
        /\ DailyWindow(current_date) # <<>>
        /\ current_date = DateOf(Now)
        /\ DailyWindow(current_date)[1] < Now) =>
           /\ result' # "error"
           /\ pc' = "slot"
           /\ current' = BoundaryAtOrAfter(Now)]_vars

\* The intersection of the working hours on a date, in UTC, a zone that
\* ZoneInfo does not know counting as UTC
HoursOverlapWithFallback(date) ==
    LET off(c) == IF ValidZone(attendee_timezones[c])
                     THEN UtcOffset(attendee_timezones[c]) ELSE 0
        starts == {Combine(date, req.earliest_hour, 0) - off(c) : c \in CalendarSet}
        ends   == {Combine(date, req.latest_hour, 0) - off(c) : c \in CalendarSet}
    IN <<CHOOSE x \in starts : \A y \in starts : y <= x,
         CHOOSE x \in ends : \A y \in ends : x <= y>>

\* C26: on a working day of everybody, with a calendar whose zone cannot be
\* processed, find_working_hours_overlap returns the intersection of the
\* others' hours with earliest_hour:00-latest_hour:00 UTC, wherever that
\* calendar stands in the order
C26_InvalidZoneCountsAsUtc ==
    ZonesResolved =>
       \A date \in RangeDates :
          (WorkingDayForAll(date) /\ ~AllZonesValid) =>
             OverlapOf(date) =
                IF HoursOverlapWithFallback(date)[1] < HoursOverlapWithFallback(date)[2]
                   THEN HoursOverlapWithFallback(date) ELSE <<>>

\* C27: a slot is found only when the free/busy response has an entry for
\* every participating calendar; a calendar the response leaves out is not
\* taken to be free
C27_UncoveredCalendarIsNotFree ==
    (pc \in {"day", "slot", "done"} /\ free_slots # <<>>) =>
        \A c \in CalendarSet : c \in DOMAIN all_busy_times

\* C28: with weekdays_only off and no allow-list, timezone detection on and
\* no preferred window, a date is scanned whenever the attendees' working
\* hours intersect, whatever its weekday
C28_NoWeekdayRestriction ==
    [][(/\ pc = "day" /\ DayLoopRuns
        /\ ~req.weekdays_only
        /\ req.allowed_weekdays = {}
        /\ req.use_attendee_timezones
        /\ ~UsePreferred
        /\ AllZonesValid
        /\ HoursOverlapUtc(current_date)[1] < HoursOverlapUtc(current_date)[2]) =>
           /\ pc' = "slot"
           /\ current_date' = current_date]_vars

\* C29: at every point of the run each slot of the list starts after the one
\* before it, within a date and from one date to the next
C29_StartsStrictlyIncrease ==
    \A i \in 1..Len(free_slots) : \A j \in 1..Len(free_slots) :
        i < j => /\ free_slots[i][1] < free_slots[j][1]
                 /\ slot_dates[i] <= slot_dates[j]

\* a preferred window of an organizer west of UTC that crosses midnight UTC,
\* a first date that is today and starts at the boundary after now, and slots
\* on two dates
C29_Witness ==
    /\ pc = "done"
    /\ BothPreferred
    /\ attendee_timezones["primary"] = "America/Los_Angeles"
    /\ Len(free_slots) >= 4
    /\ slot_dates[1] = DateOf(env.now)
    /\ free_slots[1][1] = Combine(0, 23, 30)
    /\ slot_dates[1] < slot_dates[Len(slot_dates)]

\* C30: with timezone detection on, valid zones and no preferred window, every
\* slot of the list, read in the resolved zone of each participating calendar,
\* starts at or after earliest_hour:00 and ends at or before latest_hour:00
\* of the date it was found on
C30_InsideEverybodysHours ==
    (req.use_attendee_timezones /\ ~UsePreferred /\ free_slots # <<>>) =>
       \A c \in CalendarSet :
          ValidZone(attendee_timezones[c]) =>
             \A i \in 1..Len(free_slots) :
                /\ FromUtc(free_slots[i][1], attendee_timezones[c])
                      >= Combine(slot_dates[i], req.earliest_hour, 0)
                /\ FromUtc(free_slots[i][2], attendee_timezones[c])
                      <= Combine(slot_dates[i], req.latest_hour, 0)

\* an organizer in Los Angeles and an attendee in Jerusalem, ten hours apart,
\* were given slots
C30_Witness ==
    /\ pc = "done"
    /\ ~UsePreferred
    /\ attendee_timezones["primary"] = "America/Los_Angeles"
    /\ attendee_timezones["a@x.com"] = "Asia/Jerusalem"
    /\ Len(free_slots) >= 2

====
